---- MODULE Spec2Model ----
(***************************************************************************)
(* Relay server of src/webapp/index.js (lines 1-159): the socket.io        *)
(* connection handlers, the last-value registry, the device binding        *)
(* macUserSocketId, the offline messageQueue and the drain timers.  The     *)
(* second server of the file (lines 525-740) has the same handlers and the *)
(* startGeminiExam handler; GeminiSpec is that server.                     *)
(***************************************************************************)
EXTENDS Integers, Sequences, FiniteSets, TLC

\* ---------------------------------------------------------------- bounds
MaxConns  == 2   \* socket ids 1..MaxConns; an id is never reused
MaxQueue  == 2   \* longest messageQueue explored
MaxTimers == 3   \* most pending setTimeout callbacks explored
MaxEvents == 4   \* inbound message events (identify included) explored
MaxExams  == 1   \* most exam requests awaiting the external model at once

\* ------------------------------------------------------ program constants
DrainIntervalMs == 2500      \* index.js:87, index * 2500
InitQuality     == 1         \* index.js:23
InitFrameRate   == 16        \* index.js:24

Null  == 0                   \* macUserSocketId = null (index.js:26)
Conns == 1..MaxConns

\* ------------------------------------------------------------- payloads
\* Every payload is a record of one shape, so that values of different
\* JavaScript types can be compared.
Text(s) == [tag |-> "text", str |-> s, num |-> 0]
Num(n)  == [tag |-> "int",  str |-> "", num |-> n]
NaN     == [tag |-> "NaN",  str |-> "", num |-> 0]
\* { type: 'mac', status: s }
MacStatus(s) == [tag |-> "mac", str |-> s, num |-> 0]
\* { type: 'queue', status: 'queued', count: n }
QueueQueued(n) == [tag |-> "queue", str |-> "queued", num |-> n]
\* { type: 'queue', status: 'cleared' } (no count field)
QueueCleared == [tag |-> "queue", str |-> "cleared", num |-> 0]

\* socket.emit('geminiStatus', { message })
GeminiStatus(message) == [tag |-> "geminiStatus", str |-> message, num |-> 0]
\* { success: false, error }
GeminiFailure(error) == [tag |-> "failure", str |-> error, num |-> 0]
\* { success: true, data }
GeminiSuccess(data) == [tag |-> "success", str |-> data, num |-> 0]

\* inputs
Words      == {"1% About", "2% Back"}
Clips      == {"clipA", "clipB"}
Emojis     == {"ok"}
Sources    == {"<p>hi</p>"}
Frames     == {"frame"}
\* data.questions of startGeminiExam; "" is the empty (falsy) string
Questions  == {"", "Q1"}
\* how an awaited chat.sendMessage ends: the first call rejects, answers
\* text that is not the expected JSON, or asks for no file or for files;
\* the second call rejects or answers
FirstReplies  == {"rejected", "malformed", "noFiles", "files"}
SecondReplies == {"rejected", "answer"}
\* numeric payloads as the characters the client sends (slider.value)
QualityInputs   == {<<"5">>, <<"a">>}
FrameRateInputs == {<<"1", "2", "x">>, <<"a">>}

InitClipboard == "Welcome to the shared clipboard!"
InitEmoji     == "hourglass"
InitWord      == "Ready"
InitHtml      == "Waiting for HTML content..."

\* ------------------------------------------------------------- parseInt
DigitChars == {"0", "1", "2", "3", "4", "5", "6", "7", "8", "9"}
DigitVal(c) ==
  CASE c = "0" -> 0 [] c = "1" -> 1 [] c = "2" -> 2 [] c = "3" -> 3
    [] c = "4" -> 4 [] c = "5" -> 5 [] c = "6" -> 6 [] c = "7" -> 7
    [] c = "8" -> 8 [] c = "9" -> 9

RECURSIVE SkipSpace(_)
SkipSpace(s) ==
  IF s # <<>> /\ Head(s) = " " THEN SkipSpace(Tail(s)) ELSE s

RECURSIVE DigitPrefix(_)
DigitPrefix(s) ==
  IF s # <<>> /\ Head(s) \in DigitChars
    THEN <<Head(s)>> \o DigitPrefix(Tail(s))
    ELSE <<>>

RECURSIVE DigitsValue(_, _)
DigitsValue(s, acc) ==
  IF s = <<>> THEN acc ELSE DigitsValue(Tail(s), acc * 10 + DigitVal(Head(s)))

\* a payload without an integer read as 0
ParseInt_Zero(raw) ==
  LET s    == SkipSpace(raw)
      neg  == s # <<>> /\ Head(s) = "-"
      body == IF s # <<>> /\ Head(s) \in {"-", "+"} THEN Tail(s) ELSE s
      ds   == DigitPrefix(body)
  IN Num(IF neg THEN 0 - DigitsValue(ds, 0) ELSE DigitsValue(ds, 0))

\* parseInt(x, 10): leading white space, an optional sign, then the longest
\* run of decimal digits; NaN when there is no digit.
ParseInt(raw) ==
  LET s    == SkipSpace(raw)
      neg  == s # <<>> /\ Head(s) = "-"
      body == IF s # <<>> /\ Head(s) \in {"-", "+"} THEN Tail(s) ELSE s
      ds   == DigitPrefix(body)
  IN IF ds = <<>> THEN NaN
     ELSE Num(IF neg THEN 0 - DigitsValue(ds, 0) ELSE DigitsValue(ds, 0))

VARIABLES
  connected,            \* ids of the sockets currently connected
  closed,               \* ids of sockets that have disconnected
  lastClipboardContent,
  lastEmoji,
  lastWord,
  lastQuality,
  lastFrameRate,
  lastHtmlSource,
  macUserSocketId,
  messageQueue,
  timers,               \* pending setTimeout callbacks, in firing order
  ev,                   \* the event the last step handled
  out,                  \* the emissions of the last step, in order
  nEvents,              \* inbound message events handled so far
  qd,                   \* observer of a drain that runs undisturbed
  lastQualityUnbound,   \* lastQuality was received while no device was bound
  latest,               \* last value received on each hydrated channel
  claimed,              \* sockets that have sent identify('macos'), kept
                        \* until the step after their disconnect
  startup,              \* per socket, whether it has been sent the snapshot
  cmds,                 \* commands received and not yet emitted to a device
  drainOpen,            \* a drain was started and 'cleared' has not followed
  batch,                \* how many times the queue has been emptied
  drained,              \* <<batch, index>> of the drain deliveries made
  apiKey,               \* process.env.GEMINI_API_KEY is set
  exams,                \* exam requests awaiting chat.sendMessage
  macSeen               \* per web client, the last 'mac' status sent to it

progVars == <<connected, closed, lastClipboardContent, lastEmoji, lastWord,
              lastQuality, lastFrameRate, lastHtmlSource, macUserSocketId,
              messageQueue, timers>>
examVars == <<apiKey, exams>>
vars == <<connected, closed, lastClipboardContent, lastEmoji, lastWord,
          lastQuality, lastFrameRate, lastHtmlSource, macUserSocketId,
          messageQueue, timers, ev, out, nEvents, qd, lastQualityUnbound,
          latest, claimed, startup, cmds, drainOpen, batch, drained,
          apiKey, exams, macSeen>>

\* ------------------------------------------------------------ emissions
\* An emission is [via, room, event, data, rcpt]; rcpt is the set of
\* sockets it reaches.
\* io.emit(event, data): every connected socket
IoEmit(conn, event, data) ==
  [via |-> "io.emit", room |-> Null, event |-> event, data |-> data,
   rcpt |-> conn]
\* socket.emit(event, data): the socket itself
SocketEmit(c, event, data) ==
  [via |-> "socket.emit", room |-> c, event |-> event, data |-> data,
   rcpt |-> {c}]
\* socket.broadcast.emit(event, data): every connected socket but the sender
BroadcastEmit(conn, c, event, data) ==
  [via |-> "socket.broadcast.emit", room |-> c, event |-> event,
   data |-> data, rcpt |-> conn \ {c}]
\* io.to(id).emit(event, data): the socket whose id is the room, if any
IoTo(conn, id, event, data) ==
  [via |-> "io.to", room |-> id, event |-> event, data |-> data,
   rcpt |-> conn \cap {id}]

Event(type, from, tag, data, raw) ==
  [type |-> type, from |-> from, tag |-> tag, data |-> data, raw |-> raw]
NoData == Text("")

\* ------------------------------------------------------------- sendToMac
\* the branch taken whenever a device is bound, backlog or not
SendsNow_IgnoresBacklog(event) ==
  event # "wordToMac" \/ macUserSocketId # Null

\* the branch taken for the device state alone, whatever the event
SendsNow_AnyEvent(event) ==
  macUserSocketId # Null /\ Len(messageQueue) = 0

\* index.js:38, the condition of the immediate branch
SendsNow(event) ==
  event # "wordToMac" \/ (macUserSocketId # Null /\ Len(messageQueue) = 0)

\* unshift in place of push
sendToMacQueue_Prepend(event, data) ==
  IF SendsNow(event)
    THEN messageQueue
    ELSE <<[event |-> event, data |-> data]>> \o messageQueue

\* index.js:42, messageQueue after sendToMac(event, data)
sendToMacQueue(event, data) ==
  IF SendsNow(event)
    THEN messageQueue
    ELSE Append(messageQueue, [event |-> event, data |-> data])

\* the count taken before the push
sendToMacOut_StaleCount(event, data) ==
  IF SendsNow(event)
    THEN <<IoTo(connected, macUserSocketId, event, data)>>
    ELSE <<IoEmit(connected, "statusUpdate",
                  QueueQueued(Len(messageQueue)))>>

\* io.emit in place of io.to(macUserSocketId).emit
sendToMacOut_Broadcast(event, data) ==
  IF SendsNow(event)
    THEN <<IoEmit(connected, event, data)>>
    ELSE <<IoEmit(connected, "statusUpdate",
                  QueueQueued(Len(messageQueue) + 1))>>

\* index.js:39 and 44-48, what sendToMac(event, data) emits
sendToMacOut(event, data) ==
  IF SendsNow(event)
    THEN <<IoTo(connected, macUserSocketId, event, data)>>
    ELSE <<IoEmit(connected, "statusUpdate",
                  QueueQueued(Len(messageQueue) + 1))>>

\* ---------------------------------------------------------------- timers
\* setTimeout(cb, delay): the callback joins the pending timers behind
\* every timer that is due no later.
RECURSIVE InsertTimer(_, _)
InsertTimer(ts, t) ==
  IF ts = <<>> THEN <<t>>
  ELSE IF Head(ts).remaining <= t.remaining
         THEN <<Head(ts)>> \o InsertTimer(Tail(ts), t)
         ELSE <<t>> \o ts

\* index.js:71-88, messageQueue.forEach((msg, index) => setTimeout(...,
\* index * 2500)); index is 0-based as in the source.  tag labels the
\* timers of this identification for the observers; no callback reads it.
RECURSIVE ScheduleDrain(_, _, _, _)
ScheduleDrain(ts, queue, index, tag) ==
  IF index >= Len(queue) THEN ts
  ELSE ScheduleDrain(
         InsertTimer(ts, [msg |-> queue[index + 1], index |-> index,
                          remaining |-> index * DrainIntervalMs,
                          tag |-> tag]),
         queue, index + 1, tag)

\* the last index taken to be the length
IsLastOfDrain_OffByOne(t) == t.index = Len(messageQueue)

\* index.js:82, the test the callback makes after its delivery
IsLastOfDrain(t) == t.index = Len(messageQueue) - 1

\* the delivery addressed to the socket that started the drain
DrainCallbackOut_Owner(t) ==
  <<IoTo(connected, t.tag.owner, t.msg.event, t.msg.data),
    IoEmit(connected, "statusUpdate",
           QueueQueued(Len(messageQueue) - t.index - 1))>>
  \o (IF IsLastOfDrain(t)
        THEN <<IoEmit(connected, "statusUpdate", QueueCleared)>>
        ELSE <<>>)

\* index.js:73-86, what the callback of timer t emits
DrainCallbackOut(t) ==
  <<IoTo(connected, macUserSocketId, t.msg.event, t.msg.data),
    IoEmit(connected, "statusUpdate",
           QueueQueued(Len(messageQueue) - t.index - 1))>>
  \o (IF IsLastOfDrain(t)
        THEN <<IoEmit(connected, "statusUpdate", QueueCleared)>>
        ELSE <<>>)

\* ------------------------------------------------------- handler pieces
\* the identification leaves the binding as it was
BindDevice_Ignored(c) == macUserSocketId

\* a bound device keeps the slot
BindDevice_FirstWins(c) ==
  IF macUserSocketId # Null THEN macUserSocketId ELSE c

\* index.js:58, macUserSocketId = socket.id
BindDevice(c) == c

\* the settings the server started with
DeviceHydration_Defaults(c) ==
  <<SocketEmit(c, "wordToMac", Text(lastWord)),
    SocketEmit(c, "qualityChange", Num(InitQuality)),
    SocketEmit(c, "frameRateChange", Num(InitFrameRate))>>

\* the settings without the last command
DeviceHydration_NoWord(c) ==
  <<SocketEmit(c, "qualityChange", lastQuality),
    SocketEmit(c, "frameRateChange", lastFrameRate)>>

\* index.js:63-65, initial settings pushed to the identifying device
DeviceHydration(c) ==
  <<SocketEmit(c, "wordToMac", Text(lastWord)),
    SocketEmit(c, "qualityChange", lastQuality),
    SocketEmit(c, "frameRateChange", lastFrameRate)>>

\* the initial state without the rendered markup
ViewerHydration_NoHtml(c) ==
  <<SocketEmit(c, "clipboardData", Text(lastClipboardContent)),
    SocketEmit(c, "emojiToWeb", Text(lastEmoji)),
    SocketEmit(c, "statusUpdate",
               MacStatus(IF macUserSocketId # Null
                           THEN "connected" ELSE "disconnected"))>>

\* the initial state with the device reported absent
ViewerHydration_DeviceAbsent(c) ==
  <<SocketEmit(c, "clipboardData", Text(lastClipboardContent)),
    SocketEmit(c, "emojiToWeb", Text(lastEmoji)),
    SocketEmit(c, "renderHTML", Text(lastHtmlSource)),
    SocketEmit(c, "statusUpdate", MacStatus("disconnected"))>>

\* index.js:94-97, initial state pushed to the identifying web client
ViewerHydration(c) ==
  <<SocketEmit(c, "clipboardData", Text(lastClipboardContent)),
    SocketEmit(c, "emojiToWeb", Text(lastEmoji)),
    SocketEmit(c, "renderHTML", Text(lastHtmlSource)),
    SocketEmit(c, "statusUpdate",
               MacStatus(IF macUserSocketId # Null
                           THEN "connected" ELSE "disconnected"))>>

\* index.js:100-101, messageQueue after a web client identified
ViewerQueue == IF Len(messageQueue) > 0 THEN <<>> ELSE messageQueue

\* index.js:100-107, the queue notice to the identifying web client; count
\* is read after line 101 has assigned the queue.
ViewerQueueNotice(c) ==
  IF Len(messageQueue) > 0
    THEN <<SocketEmit(c, "statusUpdate", QueueQueued(Len(ViewerQueue)))>>
    ELSE <<>>

\* io.emit in place of socket.broadcast.emit
ClipboardOut_Echo(c, content) ==
  <<IoEmit(connected, "clipboardData", Text(content))>>

\* index.js:122, socket.broadcast.emit('clipboardData', content)
ClipboardOut(c, content) ==
  <<BroadcastEmit(connected, c, "clipboardData", Text(content))>>

\* socket.broadcast.emit in place of io.emit
EmojiOut_NoEcho(c, emoji) ==
  <<BroadcastEmit(connected, c, "emojiToWeb", Text(emoji))>>

\* index.js:144, io.emit('emojiToWeb', emoji)
EmojiOut(c, emoji) ==
  <<IoEmit(connected, "emojiToWeb", Text(emoji))>>

\* the comparison inverted
IsBoundDevice_NotBound(c) == c # macUserSocketId

\* any socket that identified as device counts as the bound one
IsBoundDevice_Claimed(c) == c \in claimed

\* a comparison that never matches
IsBoundDevice_Never(c) == FALSE

\* index.js:149, socket.id === macUserSocketId
IsBoundDevice(c) == c = macUserSocketId

\* ------------------------------------------------------------- observers
MessageTypes == {"identify", "screenData", "webSourceCode", "clipboardData",
                 "wordToMac", "qualityChange", "frameRateChange",
                 "emojiToWeb"}

\* index.js:667, the message the second server handles in addition
GeminiMessageTypes == {"startGeminiExam"}

IsDeviceIdentify(e) == e.type = "identify" /\ e.tag = "macos"
IsViewerIdentify(e) == e.type = "identify" /\ e.tag # "macos"

EmptyQd == [phase |-> "collect", snap |-> <<>>, dev |-> Null, fired |-> 0,
            delivered |-> <<>>, depths |-> <<>>, devWords |-> <<>>]

IsQueueStatus(m) == m.event = "statusUpdate" /\ m.data.tag = "queue"
IsDrainDelivery(m) == m.via = "io.to" /\ m.event = "wordToMac"

Deliveries(o) ==
  LET s == SelectSeq(o, IsDrainDelivery)
  IN [i \in 1..Len(s) |-> [rcpt |-> s[i].rcpt, word |-> s[i].data]]
Depths(o) ==
  LET s == SelectSeq(o, IsQueueStatus)
  IN [i \in 1..Len(s) |-> [rcpt |-> s[i].rcpt, data |-> s[i].data]]
WordsTo(o, c) ==
  LET Hit(m) == m.event = "wordToMac" /\ c \in m.rcpt
      s == SelectSeq(o, Hit)
  IN [i \in 1..Len(s) |-> s[i].data]

\* qd follows a drain that nothing disturbs.  Phase "collect": no timer is
\* pending and snap lists, in the order received, the wordToMac commands
\* received while no device was bound since the queue was last empty.
\* Phase "drain": a device identified and only timers have run since; fired
\* counts the timers, delivered lists their wordToMac emissions, depths the
\* queue statusUpdates, devWords every wordToMac the device got from the
\* identify on.  Phase "done": the last timer of that drain has fired.
\* Phase "off": some other event came in between.
QdNext ==
  LET clean == messageQueue' = <<>> /\ timers' = <<>>
      collecting == timers = <<>> /\
                    (qd.phase = "collect" \/
                     (qd.phase = "done" /\ messageQueue = <<>>))
      base == IF qd.phase = "collect" THEN qd ELSE EmptyQd
  IN
  IF collecting /\ IsDeviceIdentify(ev') /\ base.snap # <<>>
    THEN [base EXCEPT !.phase = IF timers' = <<>> THEN "done" ELSE "drain",
                      !.dev = ev'.from,
                      !.devWords = WordsTo(out', ev'.from)]
  ELSE IF collecting /\ ev'.type = "wordToMac" /\ macUserSocketId = Null
    THEN [base EXCEPT !.snap = Append(@, ev'.data)]
  ELSE IF collecting /\ IsViewerIdentify(ev') /\ base.snap # <<>>
    THEN IF clean THEN EmptyQd ELSE [EmptyQd EXCEPT !.phase = "off"]
  ELSE IF collecting
    THEN base
  ELSE IF qd.phase = "drain" /\ ev'.type = "timer"
    THEN [qd EXCEPT !.phase = IF timers' = <<>> THEN "done" ELSE "drain",
                    !.fired = @ + 1,
                    !.delivered = @ \o Deliveries(out'),
                    !.depths = @ \o Depths(out'),
                    !.devWords = @ \o WordsTo(out', qd.dev)]
  ELSE IF qd.phase = "drain" /\ ev'.type = "tick"
    THEN qd
  ELSE IF clean
    THEN EmptyQd
  ELSE [EmptyQd EXCEPT !.phase = "off"]

\* the value each hydrated channel received last
LatestNext ==
  CASE ev'.type = "clipboardData" -> [latest EXCEPT !.clipboard = ev'.data.str]
    [] ev'.type = "emojiToWeb"    -> [latest EXCEPT !.emoji = ev'.data.str]
    [] ev'.type = "webSourceCode" -> [latest EXCEPT !.html = ev'.data.str]
    [] ev'.type = "wordToMac"     -> [latest EXCEPT !.word = ev'.data.str]
    [] ev'.type = "qualityChange" ->
         [latest EXCEPT !.quality = ParseInt(ev'.raw)]
    [] ev'.type = "frameRateChange" ->
         [latest EXCEPT !.frameRate = ParseInt(ev'.raw)]
    [] OTHER -> latest

\* a live update: a channel value fanned out to the connected sockets
IsLive(m) ==
  /\ m.via \in {"io.emit", "socket.broadcast.emit"}
  /\ m.event \in {"clipboardData", "emojiToWeb", "renderHTML", "screenData"}

\* startup[c] is "snap" once the connected socket c has been sent the
\* web-client snapshot, "none" before that and after c has closed.
StartupNext ==
  [c \in Conns |->
     IF c \notin connected' THEN "none"
     ELSE IF IsViewerIdentify(ev') /\ ev'.from = c THEN "snap"
     ELSE startup[c]]

\* the commands the last step emitted to the socket bound as device
EmittedToDevice ==
  {out'[i].data.str : i \in
     {j \in 1..Len(out') : /\ out'[j].event = "wordToMac"
                           /\ macUserSocketId' # Null
                           /\ out'[j].rcpt = {macUserSocketId'}}}

\* cmds.awaiting: commands received that no device has been sent and after
\* whose receipt no device has identified; cmds.due: commands received that
\* no device has been sent although a device identified after their receipt
\* and has stayed connected since.
CmdsNext ==
  LET received == IF ev'.type = "wordToMac" THEN {ev'.data.str} ELSE {}
      a1 == IF IsDeviceIdentify(ev') THEN {}
            ELSE IF ev'.type = "disconnect" /\ IsBoundDevice(ev'.from)
              THEN cmds.awaiting \cup cmds.due
            ELSE cmds.awaiting \cup received
      d1 == IF IsDeviceIdentify(ev') THEN cmds.due \cup cmds.awaiting
            ELSE IF ev'.type = "disconnect" /\ IsBoundDevice(ev'.from)
              THEN {}
            ELSE cmds.due
  IN [awaiting |-> a1 \ EmittedToDevice, due |-> d1 \ EmittedToDevice]

\* drainOpen: a device identified with a non-empty queue and has stayed
\* bound, and no 'cleared' statusUpdate has been broadcast since.
DrainOpenNext ==
  IF ev'.type = "disconnect" /\ IsBoundDevice(ev'.from) THEN FALSE
  ELSE IF \E i \in 1..Len(out') :
            out'[i].event = "statusUpdate" /\ out'[i].data = QueueCleared
    THEN FALSE
  ELSE IF IsDeviceIdentify(ev') /\ Len(messageQueue) > 0 THEN TRUE
  ELSE drainOpen

\* batch numbers the successive contents of the queue
BatchNext ==
  IF messageQueue # <<>> /\ messageQueue' = <<>> THEN batch + 1 ELSE batch

\* drained: the queue entries, as <<batch, index>>, that a drain callback
\* has emitted to a socket; an entry is kept while its batch is the current
\* one or a timer for it is still pending.
DrainedNext ==
  LET new == IF ev'.type = "timer" /\ out'[1].rcpt # {}
               THEN {<<Head(timers).tag.batch, Head(timers).index>>}
               ELSE {}
      all == drained \cup new
  IN {p \in all :
        \/ p[1] = batch' /\ messageQueue' # <<>>
        \/ \E i \in 1..Len(timers') :
             timers'[i].tag.batch = p[1] /\ timers'[i].index = p[2]}

\* the 'mac' statusUpdates of o that reach socket c
MacStatusesTo(o, c) ==
  LET Hit(m) == m.event = "statusUpdate" /\ m.data.tag = "mac"
                  /\ c \in m.rcpt
  IN SelectSeq(o, Hit)

\* macSeen[c] is the status of the last 'mac' statusUpdate sent to socket c
\* since it identified as web client, "none" if c has not or has closed.
MacSeenNext ==
  [c \in Conns |->
     IF c \notin connected' \/ startup'[c] # "snap" THEN "none"
     ELSE LET s == MacStatusesTo(out', c)
          IN IF s # <<>> THEN s[Len(s)].data.str ELSE macSeen[c]]

Observe ==
  /\ nEvents' = IF ev'.type \in MessageTypes \cup GeminiMessageTypes
                  THEN nEvents + 1 ELSE nEvents
  /\ qd' = QdNext
  /\ lastQualityUnbound' =
       IF ev'.type = "qualityChange" THEN macUserSocketId = Null
       ELSE lastQualityUnbound
  /\ latest' = LatestNext
  /\ claimed' = (IF IsDeviceIdentify(ev') THEN claimed \cup {ev'.from}
                 ELSE claimed) \cap (connected' \cup {ev'.from})
  /\ startup' = StartupNext
  /\ cmds' = CmdsNext
  /\ drainOpen' = DrainOpenNext
  /\ batch' = BatchNext
  /\ drained' = DrainedNext
  /\ macSeen' = MacSeenNext

\* ----------------------------------------------------------------- Init
InitRelay ==
  /\ connected = {}
  /\ closed = {}
  /\ lastClipboardContent = InitClipboard
  /\ lastEmoji = InitEmoji
  /\ lastWord = InitWord
  /\ lastQuality = Num(InitQuality)
  /\ lastFrameRate = Num(InitFrameRate)
  /\ lastHtmlSource = InitHtml
  /\ macUserSocketId = Null
  /\ messageQueue = <<>>
  /\ timers = <<>>
  /\ ev = Event("init", Null, "", NoData, <<>>)
  /\ out = <<>>
  /\ nEvents = 0
  /\ qd = EmptyQd
  /\ lastQualityUnbound = FALSE
  /\ latest = [clipboard |-> InitClipboard, emoji |-> InitEmoji,
               html |-> InitHtml, word |-> InitWord,
               quality |-> Num(InitQuality),
               frameRate |-> Num(InitFrameRate)]
  /\ claimed = {}
  /\ startup = [c \in Conns |-> "none"]
  /\ cmds = [awaiting |-> {}, due |-> {}]
  /\ drainOpen = FALSE
  /\ batch = 0
  /\ drained = {}
  /\ macSeen = [c \in Conns |-> "none"]

\* the server of lines 1-159 reads no API key and starts no exam
Init ==
  /\ InitRelay
  /\ apiKey = FALSE
  /\ exams = <<>>

\* the server of lines 525-740; GEMINI_API_KEY is set in the environment
\* or it is not
GeminiInit ==
  /\ InitRelay
  /\ apiKey \in BOOLEAN
  /\ exams = <<>>

\* -------------------------------------------------------------- actions
\* index.js:53-54, io.on('connection'); socket ids are unique, the model
\* hands them out in increasing order.
Connect(c) ==
  /\ c \notin connected \cup closed
  /\ c = Cardinality(connected \cup closed) + 1
  /\ connected' = connected \cup {c}
  /\ ev' = Event("connection", c, "", NoData, <<>>)
  /\ out' = <<>>
  /\ UNCHANGED <<closed, lastClipboardContent, lastEmoji, lastWord,
                 lastQuality, lastFrameRate, lastHtmlSource,
                 macUserSocketId, messageQueue, timers>>
  /\ UNCHANGED examVars
  /\ Observe

\* index.js:57-90, socket.on('identify') with type === 'macos'
IdentifyDevice(c) ==
  /\ c \in connected
  /\ nEvents < MaxEvents
  /\ Len(timers) + Len(messageQueue) <= MaxTimers
  /\ macUserSocketId' = BindDevice(c)
  /\ ev' = Event("identify", c, "macos", NoData, <<>>)
  /\ out' = <<IoEmit(connected, "statusUpdate", MacStatus("connected"))>>
            \o DeviceHydration(c)
  /\ timers' = IF Len(messageQueue) > 0
                 THEN ScheduleDrain(timers, messageQueue, 0,
                                    [owner |-> c, batch |-> batch])
                 ELSE timers
  /\ UNCHANGED <<connected, closed, lastClipboardContent, lastEmoji,
                 lastWord, lastQuality, lastFrameRate, lastHtmlSource,
                 messageQueue>>
  /\ UNCHANGED examVars
  /\ Observe

\* the web-client branch giving up the device role of the sender
IdentifyViewer_ReleasesDevice(c, tag) ==
  /\ c \in connected
  /\ nEvents < MaxEvents
  /\ tag # "macos"
  /\ ev' = Event("identify", c, tag, NoData, <<>>)
  /\ messageQueue' = ViewerQueue
  /\ macUserSocketId' = IF IsBoundDevice(c) THEN Null ELSE macUserSocketId
  /\ out' = (IF IsBoundDevice(c)
               THEN <<IoEmit(connected, "statusUpdate",
                             MacStatus("disconnected"))>>
               ELSE <<>>)
            \o ViewerHydration(c) \o ViewerQueueNotice(c)
  /\ UNCHANGED <<connected, closed, lastClipboardContent, lastEmoji,
                 lastWord, lastQuality, lastFrameRate, lastHtmlSource,
                 timers>>
  /\ UNCHANGED examVars
  /\ Observe

\* index.js:91-108, socket.on('identify') with any other type
IdentifyViewer(c, tag) ==
  /\ c \in connected
  /\ nEvents < MaxEvents
  /\ tag # "macos"
  /\ ev' = Event("identify", c, tag, NoData, <<>>)
  /\ messageQueue' = ViewerQueue
  /\ out' = ViewerHydration(c) \o ViewerQueueNotice(c)
  /\ UNCHANGED <<connected, closed, lastClipboardContent, lastEmoji,
                 lastWord, lastQuality, lastFrameRate, lastHtmlSource,
                 macUserSocketId, timers>>
  /\ UNCHANGED examVars
  /\ Observe

\* index.js:111-113, socket.on('screenData')
ScreenData(c, data) ==
  /\ c \in connected
  /\ nEvents < MaxEvents
  /\ ev' = Event("screenData", c, "", Text(data), <<>>)
  /\ out' = <<IoEmit(connected, "screenData", Text(data))>>
  /\ UNCHANGED progVars
  /\ UNCHANGED examVars
  /\ Observe

\* index.js:115-118, socket.on('webSourceCode')
WebSourceCode(c, source) ==
  /\ c \in connected
  /\ nEvents < MaxEvents
  /\ ev' = Event("webSourceCode", c, "", Text(source), <<>>)
  /\ lastHtmlSource' = source
  /\ out' = <<IoEmit(connected, "renderHTML", Text(source))>>
  /\ UNCHANGED <<connected, closed, lastClipboardContent, lastEmoji,
                 lastWord, lastQuality, lastFrameRate, macUserSocketId,
                 messageQueue, timers>>
  /\ UNCHANGED examVars
  /\ Observe

\* the handler held back until no drain callback is pending
ClipboardData_AfterDrain(c, content) ==
  /\ timers = <<>>
  /\ c \in connected
  /\ nEvents < MaxEvents
  /\ ev' = Event("clipboardData", c, "", Text(content), <<>>)
  /\ lastClipboardContent' = content
  /\ out' = ClipboardOut(c, content)
  /\ UNCHANGED <<connected, closed, lastEmoji, lastWord, lastQuality,
                 lastFrameRate, lastHtmlSource, macUserSocketId,
                 messageQueue, timers>>
  /\ UNCHANGED examVars
  /\ Observe

\* index.js:120-123, socket.on('clipboardData')
ClipboardData(c, content) ==
  /\ c \in connected
  /\ nEvents < MaxEvents
  /\ ev' = Event("clipboardData", c, "", Text(content), <<>>)
  /\ lastClipboardContent' = content
  /\ out' = ClipboardOut(c, content)
  /\ UNCHANGED <<connected, closed, lastEmoji, lastWord, lastQuality,
                 lastFrameRate, lastHtmlSource, macUserSocketId,
                 messageQueue, timers>>
  /\ UNCHANGED examVars
  /\ Observe

\* index.js:126-130, socket.on('wordToMac')
WordToMac(c, word) ==
  /\ c \in connected
  /\ nEvents < MaxEvents
  /\ SendsNow("wordToMac") \/ Len(messageQueue) < MaxQueue
  /\ ev' = Event("wordToMac", c, "", Text(word), <<>>)
  /\ lastWord' = word
  /\ messageQueue' = sendToMacQueue("wordToMac", Text(word))
  /\ out' = sendToMacOut("wordToMac", Text(word))
  /\ UNCHANGED <<connected, closed, lastClipboardContent, lastEmoji,
                 lastQuality, lastFrameRate, lastHtmlSource,
                 macUserSocketId, timers>>
  /\ UNCHANGED examVars
  /\ Observe

\* index.js:132-135, socket.on('qualityChange')
QualityChange(c, raw) ==
  /\ c \in connected
  /\ nEvents < MaxEvents
  /\ ev' = Event("qualityChange", c, "", NoData, raw)
  /\ lastQuality' = ParseInt(raw)
  /\ messageQueue' = sendToMacQueue("qualityChange", lastQuality')
  /\ out' = sendToMacOut("qualityChange", lastQuality')
  /\ UNCHANGED <<connected, closed, lastClipboardContent, lastEmoji,
                 lastWord, lastFrameRate, lastHtmlSource, macUserSocketId,
                 timers>>
  /\ UNCHANGED examVars
  /\ Observe

\* index.js:137-140, socket.on('frameRateChange')
FrameRateChange(c, raw) ==
  /\ c \in connected
  /\ nEvents < MaxEvents
  /\ ev' = Event("frameRateChange", c, "", NoData, raw)
  /\ lastFrameRate' = ParseInt(raw)
  /\ messageQueue' = sendToMacQueue("frameRateChange", lastFrameRate')
  /\ out' = sendToMacOut("frameRateChange", lastFrameRate')
  /\ UNCHANGED <<connected, closed, lastClipboardContent, lastEmoji,
                 lastWord, lastQuality, lastHtmlSource, macUserSocketId,
                 timers>>
  /\ UNCHANGED examVars
  /\ Observe

\* index.js:142-145, socket.on('emojiToWeb')
EmojiToWeb(c, emoji) ==
  /\ c \in connected
  /\ nEvents < MaxEvents
  /\ ev' = Event("emojiToWeb", c, "", Text(emoji), <<>>)
  /\ lastEmoji' = emoji
  /\ out' = EmojiOut(c, emoji)
  /\ UNCHANGED <<connected, closed, lastClipboardContent, lastWord,
                 lastQuality, lastFrameRate, lastHtmlSource,
                 macUserSocketId, messageQueue, timers>>
  /\ UNCHANGED examVars
  /\ Observe

\* index.js:147-154, socket.on('disconnect'); the socket has already left
\* the server's socket set when the handler runs.
Disconnect(c) ==
  /\ c \in connected
  /\ connected' = connected \ {c}
  /\ closed' = closed \cup {c}
  /\ ev' = Event("disconnect", c, "", NoData, <<>>)
  /\ macUserSocketId' = IF IsBoundDevice(c) THEN Null
                        ELSE macUserSocketId
  /\ out' = IF IsBoundDevice(c)
              THEN <<IoEmit(connected', "statusUpdate",
                            MacStatus("disconnected"))>>
              ELSE <<>>
  /\ UNCHANGED <<lastClipboardContent, lastEmoji, lastWord, lastQuality,
                 lastFrameRate, lastHtmlSource, messageQueue, timers>>
  /\ UNCHANGED examVars
  /\ Observe

\* index.js:72-87, the callback of the timer that is due
TimerFire ==
  /\ timers # <<>>
  /\ Head(timers).remaining = 0
  /\ ev' = Event("timer", Head(timers).tag.owner, "",
                  Head(timers).msg.data, <<>>)
  /\ out' = DrainCallbackOut(Head(timers))
  /\ messageQueue' = IF IsLastOfDrain(Head(timers)) THEN <<>>
                     ELSE messageQueue
  /\ timers' = Tail(timers)
  /\ UNCHANGED <<connected, closed, lastClipboardContent, lastEmoji,
                 lastWord, lastQuality, lastFrameRate, lastHtmlSource,
                 macUserSocketId>>
  /\ UNCHANGED examVars
  /\ Observe

\* DrainIntervalMs of time pass; no timer is overdue
Tick ==
  /\ timers # <<>>
  /\ \A i \in 1..Len(timers) : timers[i].remaining > 0
  /\ timers' = [i \in 1..Len(timers) |->
                  [timers[i] EXCEPT !.remaining = @ - DrainIntervalMs]]
  /\ ev' = Event("tick", Null, "", NoData, <<>>)
  /\ out' = <<>>
  /\ UNCHANGED <<connected, closed, lastClipboardContent, lastEmoji,
                 lastWord, lastQuality, lastFrameRate, lastHtmlSource,
                 macUserSocketId, messageQueue>>
  /\ UNCHANGED examVars
  /\ Observe

\* ------------------------------------------------------ startGeminiExam
\* emitStatus to every connected socket
EmitStatus_Broadcast(c, message) ==
  [via |-> "io.emit", room |-> Null, event |-> "geminiStatus",
   data |-> GeminiStatus(message), rcpt |-> connected]

\* index.js:603-606, emitStatus: socket.emit('geminiStatus', { message });
\* the socket may have closed while the request was awaited
EmitStatus(c, message) ==
  [via |-> "socket.emit", room |-> c, event |-> "geminiStatus",
   data |-> GeminiStatus(message), rcpt |-> connected \cap {c}]

\* index.js:607-609, emitResult: console.log only, nothing is emitted
EmitResult(c, data) == <<>>

\* index.js:672, 676, socket.emit('geminiResult', ...) of the handler
HandlerResult(c, data) ==
  [via |-> "socket.emit", room |-> c, event |-> "geminiResult",
   data |-> data, rcpt |-> {c}]

\* index.js:612-626, processExamWithGemini up to its first await
ExamPrologue(c) ==
  <<EmitStatus(c, "Reading files"), EmitStatus(c, "Found images"),
    EmitStatus(c, "Sending request to Gemini")>>

\* index.js:627-652, from the first answer to the second await, or to the
\* catch block (index.js:658-661)
FirstReplyOut(c, reply) ==
  CASE reply = "rejected" ->
         EmitResult(c, GeminiFailure("rejected"))
    [] reply = "malformed" ->
         <<EmitStatus(c, "Gemini requested files")>>
         \o EmitResult(c, GeminiFailure("malformed"))
    [] reply = "noFiles" ->
         <<EmitStatus(c, "Gemini requested files"),
           EmitStatus(c, "Sending follow-up")>>
    [] reply = "files" ->
         <<EmitStatus(c, "Gemini requested files"),
           EmitStatus(c, "Loading images"),
           EmitStatus(c, "Sending follow-up")>>

\* index.js:653-662, from the second answer to the end
SecondReplyOut(c, reply) ==
  CASE reply = "rejected" ->
         EmitResult(c, GeminiFailure("rejected"))
    [] reply = "answer" ->
         <<EmitStatus(c, "Complete")>>
         \o EmitResult(c, GeminiSuccess("answers"))

\* the sequence s without its i-th element
RemoveAt(s, i) == SubSeq(s, 1, i - 1) \o SubSeq(s, i + 1, Len(s))

\* index.js:667-681, socket.on('startGeminiExam') up to its return or to
\* the first await of processExamWithGemini
StartGeminiExam(c, questions) ==
  /\ c \in connected
  /\ nEvents < MaxEvents
  /\ (apiKey /\ questions # "") => Len(exams) < MaxExams
  /\ ev' = Event("startGeminiExam", c, "", Text(questions), <<>>)
  /\ out' = IF ~apiKey
              THEN <<HandlerResult(c, GeminiFailure("GEMINI_API_KEY not set"))>>
            ELSE IF questions = ""
              THEN <<HandlerResult(c, GeminiFailure("questions empty"))>>
            ELSE ExamPrologue(c)
  /\ exams' = IF apiKey /\ questions # ""
                THEN Append(exams, [from |-> c, stage |-> 1])
                ELSE exams
  /\ UNCHANGED <<progVars, apiKey>>
  /\ Observe

\* index.js:627 and 653, an awaited chat.sendMessage settles and the
\* request that awaited it runs on
GeminiReply(i, reply) ==
  /\ i \in 1..Len(exams)
  /\ reply \in IF exams[i].stage = 1 THEN FirstReplies ELSE SecondReplies
  /\ ev' = Event("geminiReply", exams[i].from, reply,
                  Num(exams[i].stage), <<>>)
  /\ out' = IF exams[i].stage = 1 THEN FirstReplyOut(exams[i].from, reply)
            ELSE SecondReplyOut(exams[i].from, reply)
  /\ exams' = IF exams[i].stage = 1 /\ reply \in {"noFiles", "files"}
                THEN [exams EXCEPT ![i].stage = 2]
                ELSE RemoveAt(exams, i)
  /\ UNCHANGED <<progVars, apiKey>>
  /\ Observe

Next ==
  \/ \E c \in Conns : Connect(c)
  \/ \E c \in Conns : IdentifyDevice(c)
  \/ \E c \in Conns : IdentifyViewer(c, "web")
  \/ \E c \in Conns, d \in Frames : ScreenData(c, d)
  \/ \E c \in Conns, s \in Sources : WebSourceCode(c, s)
  \/ \E c \in Conns, t \in Clips : ClipboardData(c, t)
  \/ \E c \in Conns, w \in Words : WordToMac(c, w)
  \/ \E c \in Conns, r \in QualityInputs : QualityChange(c, r)
  \/ \E c \in Conns, r \in FrameRateInputs : FrameRateChange(c, r)
  \/ \E c \in Conns, e \in Emojis : EmojiToWeb(c, e)
  \/ \E c \in Conns : Disconnect(c)
  \/ TimerFire
  \/ Tick

Spec == Init /\ [][Next]_vars

\* index.js:525-740, the second server: the same handlers and the exam
GeminiNext ==
  \/ Next
  \/ \E c \in Conns, q \in Questions : StartGeminiExam(c, q)
  \/ \E i \in 1..MaxExams, r \in FirstReplies \cup SecondReplies :
       GeminiReply(i, r)

GeminiSpec == GeminiInit /\ [][GeminiNext]_vars

\* ---------------------------------------------------------------- claims
WordA == Text("1% About")
WordB == Text("2% Back")

C2_Original ==
  (qd.phase = "done" /\ qd.snap = <<WordA, WordB>>) =>
    qd.devWords = <<WordA, WordB>>

\* C2 amended: the device receives the last command "2% Back" at its
\* identification, then "1% About" and "2% Back" from the drain timers.
C2_ExampleScenario ==
  (qd.phase = "done" /\ qd.snap = <<WordA, WordB>>) =>
    /\ qd.devWords = <<WordB, WordA, WordB>>
    /\ Len(qd.delivered) = 2
    /\ qd.delivered[1] = [rcpt |-> {qd.dev}, word |-> WordA]
    /\ qd.delivered[2] = [rcpt |-> {qd.dev}, word |-> WordB]

C2_Witness ==
  /\ qd.phase = "done"
  /\ qd.snap = <<WordA, WordB>>
  /\ qd.devWords # <<>>
  /\ qd.dev = macUserSocketId

C4_QueuedWhenUnbound ==
  [][(ev'.type = "wordToMac" /\ macUserSocketId = Null) =>
       /\ messageQueue' =
            Append(messageQueue, [event |-> "wordToMac", data |-> ev'.data])
       /\ Len(out') = 1
       /\ out'[1].event = "statusUpdate"
       /\ out'[1].data = QueueQueued(Len(messageQueue'))
       /\ out'[1].rcpt = connected]_vars

C4_Witness ==
  /\ ev.type = "wordToMac"
  /\ macUserSocketId = Null
  /\ Len(messageQueue) = 2
  /\ Len(out) = 1
  /\ out[1].data = QueueQueued(2)
  /\ out[1].rcpt # {}

C6_Original ==
  ~(lastQualityUnbound /\
    \E i \in 1..Len(out) :
      /\ out[i].event = "qualityChange"
      /\ out[i].rcpt # {}
      /\ out[i].data = lastQuality)

\* C6 amended: a quality value received while no device is bound reaches
\* nobody when it is handled; a qualityChange reaches a socket only from a
\* qualityChange handled with a device bound, or as the stored last quality
\* pushed to the socket that identifies as device.
C6_QualityDropOrPush ==
  /\ (ev.type = "qualityChange" /\ lastQualityUnbound) =>
       \A i \in 1..Len(out) : out[i].rcpt = {}
  /\ \A i \in 1..Len(out) :
       (out[i].event = "qualityChange" /\ out[i].rcpt # {}) =>
         \/ /\ ev.type = "qualityChange"
            /\ ~lastQualityUnbound
            /\ out[i].data = ParseInt(ev.raw)
            /\ out[i].rcpt = {macUserSocketId}
         \/ /\ IsDeviceIdentify(ev)
            /\ out[i].via = "socket.emit"
            /\ out[i].rcpt = {ev.from}
            /\ out[i].data = lastQuality

C6_Witness ==
  /\ IsDeviceIdentify(ev)
  /\ lastQualityUnbound
  /\ lastQuality = Num(5)
  /\ \E i \in 1..Len(out) :
       /\ out[i].event = "qualityChange"
       /\ out[i].rcpt = {ev.from}
       /\ out[i].data = Num(5)

\* C7: a device identification binds the sender whoever was bound before,
\* and every io.to(macUserSocketId) emission (immediate wordToMac,
\* qualityChange, frameRateChange, drain delivery) reaches the bound socket
\* only, never a socket that claimed the device role earlier.
C7_LastWriterWins ==
  /\ IsDeviceIdentify(ev) => macUserSocketId = ev.from
  /\ \A i \in 1..Len(out) :
       out[i].via = "io.to" =>
         /\ out[i].rcpt \subseteq {macUserSocketId}
         /\ out[i].rcpt \cap (claimed \ {macUserSocketId}) = {}

C7_Witness ==
  /\ macUserSocketId # Null
  /\ (claimed \cap connected) \ {macUserSocketId} # {}
  /\ ev.type = "timer"
  /\ out[1].via = "io.to"
  /\ out[1].rcpt = {macUserSocketId}

\* C8: a clipboardData from socket X becomes the last clipboard value and
\* goes to every connected socket except X.
C8_NoClipboardEcho ==
  ev.type = "clipboardData" =>
    /\ lastClipboardContent = ev.data.str
    /\ Len(out) = 1
    /\ out[1].event = "clipboardData"
    /\ out[1].data = ev.data
    /\ out[1].rcpt = connected \ {ev.from}

C8_Witness ==
  /\ ev.type = "clipboardData"
  /\ Cardinality(connected) = 2
  /\ Cardinality(out[1].rcpt) = 1
  /\ ev.from \notin out[1].rcpt

\* C9: when the bound device disconnects the binding becomes null and
\* statusUpdate {mac, disconnected} goes to every remaining socket.
C9_DisconnectClears ==
  [][(ev'.type = "disconnect" /\ ev'.from = macUserSocketId) =>
       /\ macUserSocketId' = Null
       /\ Len(out') = 1
       /\ out'[1].event = "statusUpdate"
       /\ out'[1].data = MacStatus("disconnected")
       /\ out'[1].rcpt = connected \ {ev'.from}]_vars

C9_Witness ==
  /\ ev.type = "disconnect"
  /\ ev.from \in closed
  /\ macUserSocketId = Null
  /\ Len(out) = 1
  /\ out[1].data = MacStatus("disconnected")
  /\ out[1].rcpt = connected
  /\ connected # {}

\* C10: the snapshot pushed to a socket identifying as web client holds the
\* last clipboard, emoji and markup values received (the initial ones if
\* none was) and the status 'connected' exactly when a device is bound.
C10_HydrationCompleteness ==
  IsViewerIdentify(ev) =>
    /\ Len(out) >= 4
    /\ out[1] = SocketEmit(ev.from, "clipboardData", Text(latest.clipboard))
    /\ out[2] = SocketEmit(ev.from, "emojiToWeb", Text(latest.emoji))
    /\ out[3] = SocketEmit(ev.from, "renderHTML", Text(latest.html))
    /\ out[4].event = "statusUpdate"
    /\ out[4].rcpt = {ev.from}
    /\ out[4].data.tag = "mac"
    /\ out[4].data.str = "connected" <=> macUserSocketId # Null
    /\ out[4].data.str \in {"connected", "disconnected"}

C10_Witness ==
  /\ IsViewerIdentify(ev)
  /\ latest.clipboard = "clipB"
  /\ latest.emoji = "ok"
  /\ latest.html = "<p>hi</p>"
  /\ out[1].data = Text("clipB")

\* C11: no socket is sent its first web-client snapshot when the step
\* before it delivered to that socket a live update sent by another socket.
C11_NoStartupGap ==
  [][\A c \in Conns :
       (IsViewerIdentify(ev') /\ ev'.from = c /\ startup[c] = "none") =>
         ~\E i \in 1..Len(out) :
             IsLive(out[i]) /\ c \in out[i].rcpt /\ c # ev.from]_vars

\* C12: a socket identifying as web client while k >= 1 commands are
\* queued is sent the queue statusUpdate 'queued' with count k.
C12_ViewerQueueCount ==
  [][(IsViewerIdentify(ev') /\ Len(messageQueue) >= 1) =>
       \E i \in 1..Len(out') :
         out'[i] = SocketEmit(ev'.from, "statusUpdate",
                              QueueQueued(Len(messageQueue)))]_vars

\* C13: the queue changes only by the append of the command a wordToMac
\* queues and by being emptied in a drain callback.
C13_QueueFrame ==
  [][messageQueue' # messageQueue =>
       \/ /\ ev'.type = "wordToMac"
          /\ messageQueue' =
               Append(messageQueue,
                      [event |-> "wordToMac", data |-> ev'.data])
       \/ /\ ev'.type = "timer"
          /\ messageQueue' = <<>>]_vars

\* C14: a device identification binds the sender, sends statusUpdate
\* {mac, connected} to every connected socket, and pushes to the sender the
\* last command, quality and frame rate received, whether or not a device
\* was bound when they were received (the initial values if none was).
C14_DeviceHydration ==
  IsDeviceIdentify(ev) =>
    /\ macUserSocketId = ev.from
    /\ Len(out) = 4
    /\ out[1].event = "statusUpdate"
    /\ out[1].data = MacStatus("connected")
    /\ out[1].rcpt = connected
    /\ out[2] = SocketEmit(ev.from, "wordToMac", Text(latest.word))
    /\ out[3] = SocketEmit(ev.from, "qualityChange", latest.quality)
    /\ out[4] = SocketEmit(ev.from, "frameRateChange", latest.frameRate)

C14_Witness ==
  /\ IsDeviceIdentify(ev)
  /\ lastQualityUnbound
  /\ latest.word = "1% About"
  /\ latest.quality = NaN
  /\ latest.frameRate = Num(12)
  /\ out[4].data = Num(12)
  /\ Cardinality(out[1].rcpt) = 2

\* C15: a screenData payload goes unchanged to every connected socket
\* except the sender.
C15_ScreenDataNoEcho ==
  ev.type = "screenData" =>
    /\ Len(out) = 1
    /\ out[1].event = "screenData"
    /\ out[1].data = ev.data
    /\ out[1].rcpt = connected \ {ev.from}

C17_NoCommandLost ==
  (macUserSocketId # Null /\ timers = <<>>) => cmds.due = {}

\* C18: when a device has identified with a non-empty queue and stayed
\* bound, and every pending timer has fired, the queue has been emptied
\* and 'cleared' has been broadcast.
C18_DrainCompletes ==
  ~(drainOpen /\ macUserSocketId # Null /\ timers = <<>>)

\* C19: no drain callback emits to a socket a queue entry that a drain
\* callback has already emitted to a socket.
C19_DrainOnce ==
  [][(ev'.type = "timer" /\ out'[1].rcpt # {}) =>
       <<Head(timers).tag.batch, Head(timers).index>> \notin drained]_vars

\* C20 as stated: after the socket that started a drain has disconnected,
\* the remaining callbacks of that drain emit their command to no socket.
C20_Original ==
  (ev.type = "timer" /\ ev.from \in closed) => out[1].rcpt = {}

\* C20 amended: a disconnect cancels no timer, and each drain callback
\* addresses its command to the socket bound as device when it fires: to
\* nobody while none is bound, to a device that identified afterwards
\* otherwise.
C20_DrainTargetsCurrent ==
  [][/\ ev'.type = "disconnect" => timers' = timers
     /\ ev'.type = "timer" =>
          /\ out'[1].via = "io.to"
          /\ out'[1].event = Head(timers).msg.event
          /\ out'[1].data = Head(timers).msg.data
          /\ out'[1].room = macUserSocketId
          /\ out'[1].rcpt = IF macUserSocketId = Null THEN {}
                            ELSE {macUserSocketId}]_vars

C20_Witness ==
  /\ ev.type = "timer"
  /\ ev.from \in closed
  /\ macUserSocketId # Null
  /\ out[1].event = "wordToMac"
  /\ out[1].rcpt = {macUserSocketId}

\* a payload parseInt finds no integer in: it does not start with white
\* space, a sign or a digit
IsMalformed(raw) ==
  raw = <<>> \/ Head(raw) \notin DigitChars \cup {" ", "+", "-"}

\* C21: a qualityChange or frameRateChange whose payload holds no integer
\* stores NaN as the last value and sends exactly that to the bound device,
\* with no other emission; a stored NaN is what the next identifying device
\* is pushed.
C21_MalformedNumeric ==
  [][/\ (ev'.type = "qualityChange" /\ IsMalformed(ev'.raw)) =>
          /\ lastQuality' = NaN
          /\ out' = <<IoTo(connected, macUserSocketId, "qualityChange", NaN)>>
     /\ (ev'.type = "frameRateChange" /\ IsMalformed(ev'.raw)) =>
          /\ lastFrameRate' = NaN
          /\ out' = <<IoTo(connected, macUserSocketId, "frameRateChange",
                           NaN)>>
     /\ (IsDeviceIdentify(ev') /\ lastQuality = NaN) =>
          out'[3] = SocketEmit(ev'.from, "qualityChange", NaN)
     /\ (IsDeviceIdentify(ev') /\ lastFrameRate = NaN) =>
          out'[4] = SocketEmit(ev'.from, "frameRateChange", NaN)]_vars

C21_Witness ==
  /\ IsDeviceIdentify(ev)
  /\ lastQuality = NaN
  /\ ~lastQualityUnbound
  /\ out[3] = SocketEmit(ev.from, "qualityChange", NaN)

\* the last step ended the handling of an exam request: the handler
\* returned early, or processExamWithGemini ran to its end or to its catch
ExamFinished(e) ==
  \/ e.type = "startGeminiExam" /\ (~apiKey \/ e.data.str = "")
  \/ e.type = "geminiReply" /\ e.tag \in {"rejected", "malformed", "answer"}

\* C22: when the handling of a startGeminiExam request ends, a geminiResult
\* has been emitted to the requesting socket: success with the data when
\* the model answered, failure with an error otherwise.
C22_ResultEmitted ==
  ExamFinished(ev) =>
    \E i \in 1..Len(out) :
      /\ out[i].event = "geminiResult"
      /\ out[i].via = "socket.emit"
      /\ out[i].room = ev.from
      /\ out[i].data.tag = IF ev.type = "geminiReply" /\ ev.tag = "answer"
                             THEN "success" ELSE "failure"

\* C23: an emojiToWeb or webSourceCode update from any socket is stored as
\* the last value of its channel and goes, as emojiToWeb or renderHTML, to
\* every connected socket, the sender included.
C23_EmojiHtmlBroadcast ==
  /\ ev.type = "emojiToWeb" =>
       /\ lastEmoji = ev.data.str
       /\ Len(out) = 1
       /\ out[1].event = "emojiToWeb"
       /\ out[1].data = ev.data
       /\ out[1].rcpt = connected
       /\ ev.from \in out[1].rcpt
  /\ ev.type = "webSourceCode" =>
       /\ lastHtmlSource = ev.data.str
       /\ Len(out) = 1
       /\ out[1].event = "renderHTML"
       /\ out[1].data = ev.data
       /\ out[1].rcpt = connected
       /\ ev.from \in out[1].rcpt

C23_Witness ==
  /\ ev.type = "emojiToWeb"
  /\ Cardinality(connected) = 2
  /\ lastEmoji = "ok"
  /\ out[1].rcpt = connected

\* C24: while drain callbacks are pending, the clipboardData and the
\* web-client identify of every connected socket can be handled at once
\* (as long as the explored number of events allows one more).
C24_DrainDoesNotBlock ==
  (timers # <<>> /\ nEvents < MaxEvents) =>
    \A c \in connected :
      /\ \A t \in Clips : ENABLED ClipboardData(c, t)
      /\ ENABLED IdentifyViewer(c, "web")

\* a clipboard update was fanned out after one drain delivery and before
\* the next
C24_Witness ==
  /\ ev.type = "clipboardData"
  /\ out[1].rcpt # {}
  /\ drained # {}
  /\ timers # <<>>
  /\ macUserSocketId # Null

\* the queue entry a timer delivers, as <<batch, index>>
TimerEntry(t) == <<t.tag.batch, t.index>>

\* timer t holds a command received before the command of timer u
HoldsEarlier(t, u) ==
  \/ t.tag.batch < u.tag.batch
  \/ t.tag.batch = u.tag.batch /\ t.index < u.index

\* C25: no command is emitted to the device, by the immediate unicast of
\* sendToMac or by a drain callback, while a pending drain callback holds a
\* command that was received earlier and has never been emitted to a
\* device.
C25_OrderUnderInterleaving ==
  [][/\ (ev'.type = "wordToMac" /\ out'[1].via = "io.to"
           /\ out'[1].rcpt # {}) =>
          \A i \in 1..Len(timers) : TimerEntry(timers[i]) \in drained
     /\ (ev'.type = "timer" /\ out'[1].rcpt # {}) =>
          \A i \in 2..Len(timers) :
            HoldsEarlier(timers[i], Head(timers)) =>
              TimerEntry(timers[i]) \in drained]_vars

\* C26: the binding changes only by a device identification, which sets it
\* to the sender, or by the disconnect of the bound socket, which clears
\* it; every other step leaves it as it was.
C26_BindingFrame ==
  [][/\ IsDeviceIdentify(ev') => macUserSocketId' = ev'.from
     /\ (ev'.type = "disconnect" /\ ev'.from = macUserSocketId) =>
          macUserSocketId' = Null
     /\ ~(IsDeviceIdentify(ev') \/
          (ev'.type = "disconnect" /\ ev'.from = macUserSocketId)) =>
          macUserSocketId' = macUserSocketId]_vars

\* a socket other than the bound device identified as web client and the
\* binding stayed
C26_Witness ==
  /\ IsViewerIdentify(ev)
  /\ macUserSocketId # Null
  /\ macUserSocketId # ev.from
  /\ ev.from \notin claimed

\* C27: the disconnect of a socket that identified as device and is no
\* longer the bound one leaves the binding as it was and emits nothing.
C27_SupersededDisconnect ==
  [][(ev'.type = "disconnect" /\ ev'.from \in claimed
        /\ ev'.from # macUserSocketId) =>
       /\ macUserSocketId' = macUserSocketId
       /\ out' = <<>>]_vars

C27_Witness ==
  /\ ev.type = "disconnect"
  /\ ev.from \in claimed
  /\ macUserSocketId # Null
  /\ macUserSocketId \in connected
  /\ out = <<>>

IsExamStep(e) == e.type \in {"startGeminiExam", "geminiReply"}
IsExamEmission(m) == m.event \in {"geminiStatus", "geminiResult"}

\* C28: geminiStatus and geminiResult are emitted only while an exam
\* request is handled and only to the socket that sent it, and handling
\* the request leaves the binding, the channel values and the queue as
\* they were.
C28_ExamScopedToRequester ==
  [][/\ \A i \in 1..Len(out') :
          IsExamEmission(out'[i]) =>
            /\ IsExamStep(ev')
            /\ out'[i].via = "socket.emit"
            /\ out'[i].room = ev'.from
            /\ out'[i].rcpt \subseteq {ev'.from}
     /\ IsExamStep(ev') =>
          /\ \A i \in 1..Len(out') : IsExamEmission(out'[i])
          /\ UNCHANGED <<macUserSocketId, lastClipboardContent, lastEmoji,
                         lastWord, lastQuality, lastFrameRate,
                         lastHtmlSource, messageQueue>>]_vars

\* an exam request was answered while another socket was connected, a
\* device was bound and a command was queued
C28_Witness ==
  /\ ev.type = "geminiReply"
  /\ Len(out) >= 1
  /\ out[1].rcpt = {ev.from}
  /\ Cardinality(connected) = 2
  /\ macUserSocketId # Null
  /\ messageQueue # <<>>

\* C29: when the queue is emptied, every command it held has been emitted
\* by a drain callback to a socket bound as device, at an earlier step or
\* at this one.
C29_NoSilentDiscard ==
  [][(messageQueue # <<>> /\ messageQueue' = <<>>) =>
       \A i \in 0..(Len(messageQueue) - 1) :
         \/ <<batch, i>> \in drained
         \/ /\ ev'.type = "timer"
            /\ out'[1].rcpt # {}
            /\ TimerEntry(Head(timers)) = <<batch, i>>]_vars

\* C30: the count of every queue statusUpdate with status 'queued' is an
\* integer that is not negative.
C30_QueuedCountNonNegative ==
  \A i \in 1..Len(out) :
    (IsQueueStatus(out[i]) /\ out[i].data.str = "queued") =>
      out[i].data.num >= 0

\* C31: when the queue goes from non-empty to empty, the same step emits
\* to every connected socket a queue statusUpdate that says so: 'cleared',
\* or 'queued' with count 0.
C31_EmptinessAnnounced ==
  [][(messageQueue # <<>> /\ messageQueue' = <<>>) =>
       \E i \in 1..Len(out') :
         /\ IsQueueStatus(out'[i])
         /\ out'[i].data \in {QueueCleared, QueueQueued(0)}
         /\ out'[i].rcpt = connected']_vars

\* C32: the binding is null or the id of a connected socket that has sent
\* identify('macos'); it is never the id of a socket that has disconnected.
C32_BindingIsLiveDevice ==
  macUserSocketId # Null =>
    /\ macUserSocketId \in connected
    /\ macUserSocketId \in claimed
    /\ macUserSocketId \notin closed

\* a socket identified as device after another socket had disconnected
C32_Witness ==
  /\ macUserSocketId # Null
  /\ closed # {}
  /\ IsDeviceIdentify(ev)
  /\ nEvents >= 2

\* C33: for every connected socket that has identified as web client, the
\* last 'mac' statusUpdate sent to it says 'connected' exactly when a
\* device is bound.
C33_StatusConsistency ==
  \A c \in connected :
    startup[c] = "snap" =>
      /\ macSeen[c] \in {"connected", "disconnected"}
      /\ macSeen[c] = "connected" <=> macUserSocketId # Null

\* a web client that was told 'connected' is told 'disconnected' when the
\* bound device disconnects
C33_Witness ==
  /\ ev.type = "disconnect"
  /\ ev.from \in claimed
  /\ macUserSocketId = Null
  /\ Len(out) = 1
  /\ out[1].data = MacStatus("disconnected")
  /\ \E c \in connected : startup[c] = "snap" /\ macSeen[c] = "disconnected"

\* C34: when the bound device sends identify with a tag other than 'macos'
\* it is sent the web-client snapshot, with the status 'connected', it
\* stays the bound device and no 'disconnected' status is emitted.
C34_RolesNotExclusive ==
  [][(IsViewerIdentify(ev') /\ ev'.from = macUserSocketId) =>
       /\ macUserSocketId' = macUserSocketId
       /\ SubSeq(out', 1, 4) = ViewerHydration(ev'.from)
       /\ out'[4].data = MacStatus("connected")
       /\ \A i \in 1..Len(out') :
            out'[i].data # MacStatus("disconnected")]_vars

C34_Witness ==
  /\ IsViewerIdentify(ev)
  /\ ev.from = macUserSocketId
  /\ startup[ev.from] = "snap"
  /\ Len(out) >= 4
  /\ out[4] = SocketEmit(ev.from, "statusUpdate", MacStatus("connected"))

====
